---- MODULE Spec2Model ----
(***************************************************************************)
(* Pin capability and multiplexing subsystem of bouffalo-hal:              *)
(*   - the GPIO pad type-state machine (gpio.rs, gpio/pad_v1.rs),          *)
(*   - the interrupt-to-future bridge (gpio/input_async.rs).               *)
(* Both register layouts are modelled: "v1" (feature glb-v1, two pads per  *)
(* configuration register) and "v2" (feature glb-v2, one register per pad).*)
(***************************************************************************)
EXTENDS Integers, Sequences, FiniteSets, TLC

(* ------------------------------ bounds --------------------------------- *)
\* number of pads of the type-state machine that are explored
NumPins == 2
\* number of pad operations and hardware events in one run of the pads
MaxOps == 3
\* number of waker slots of GpioState that are explored (MAX_PADS is 46)
NumPads == 2
\* number of distinct task wakers that poll the futures
NumTasks == 2

\* number of pads that UART pad compositions are built from
NumUartPads == 5

\* number of UART peripherals
NumUarts == 2

\* number of UART signal multiplexers, and the largest U that is passed to
\* their transitions
NumMux == 2
MaxMuxArg == 3

Pins  == 0 .. (NumPins - 1)
PadIds == 0 .. (NumPads - 1)
Tasks == 1 .. NumTasks
Layouts == {"v1", "v2"}

VARIABLES
    layout,                \* cargo feature of the build: glb-v1 or glb-v2
    live,                  \* the role-typed Pad values that are alive: <<N, M>>
    call,                  \* the last pad operation that was called, with its result
    nops,                  \* how many pad operations and hardware events have happened
    gpio_config,           \* glb.gpio_config[..]
    gpio_output_enable,    \* v1: glb.gpio_output_enable
    gpio_output_value,     \* v1: glb.gpio_output_value; v2: the output latch behind gpio_set/gpio_clear
    gpio_input_value,      \* v1: glb.gpio_input_value;  v2: glb.gpio_input[..]
    gpio_interrupt_state,  \* v1: glb.gpio_interrupt_state
    gpio_interrupt_mask,   \* v1: glb.gpio_interrupt_mask
    gpio_interrupt_mode,   \* v1: glb.gpio_interrupt_mode[..]
    ref_to_glb,            \* GpioState.ref_to_glb
    pads,                  \* GpioState.pads: the content of every AtomicWaker
    isr,                   \* the activation of GpioState::on_interrupt
    fut,                   \* per pad: the wait_for_high call and its InputFuture
    notified,              \* per task: wake was called on its waker
    hist,                  \* observation of the last on_interrupt invocation
    uart                   \* a UART pad composition, its Serial and its halves

regs == <<gpio_config, gpio_output_enable, gpio_output_value, gpio_input_value,
          gpio_interrupt_state, gpio_interrupt_mask, gpio_interrupt_mode>>
bridge == <<ref_to_glb, pads, isr, fut, notified, hist>>
vars == <<layout, live, call, nops, regs, bridge, uart>>

(* --------------------------- register view ----------------------------- *)
\* 32-bit registers with one bit per pad (1 << N)
BitTest(v, n) == ((v \div (2 ^ n)) % 2) = 1
BitSet(v, n) == IF BitTest(v, n) THEN v ELSE v + (2 ^ n)
BitClr(v, n) == IF BitTest(v, n) THEN v - (2 ^ n) ELSE v

\* a bit field of a register word
GetField(w, shift, width) == (w \div (2 ^ shift)) % (2 ^ width)
SetField(w, shift, width, val) ==
    w - (GetField(w, shift, width) * (2 ^ shift)) + ((val % (2 ^ width)) * (2 ^ shift))

(* glb::v2::GpioConfig: one configuration word per pad, seen as its fields.  *)
(* RESET_VALUE is 0x0040_0b02: schmitt trigger on, function 11 (Gpio),     *)
(* interrupt masked, interrupt mode 0, everything else 0.                  *)
V2ResetValue ==
    [input_enable |-> FALSE, schmitt |-> TRUE, drive |-> 0, pull |-> "None",
     output_enable |-> FALSE, function |-> "Gpio", mode |-> "Normal",
     interrupt_mode |-> "SyncFallingEdge", interrupt_mask |-> TRUE,
     clear_interrupt |-> FALSE, has_interrupt |-> FALSE]

V2EnableInput(c) == [c EXCEPT !.input_enable = TRUE]
V2DisableInput(c) == [c EXCEPT !.input_enable = FALSE]
V2EnableOutput(c) == [c EXCEPT !.output_enable = TRUE]
V2DisableOutput(c) == [c EXCEPT !.output_enable = FALSE]
V2EnableSchmitt(c) == [c EXCEPT !.schmitt = TRUE]
V2DisableSchmitt(c) == [c EXCEPT !.schmitt = FALSE]
V2SetPull(c, p) == [c EXCEPT !.pull = p]
V2SetDrive(c, d) == [c EXCEPT !.drive = d]
V2SetFunction(c, f) == [c EXCEPT !.function = f]
V2SetMode(c, m) == [c EXCEPT !.mode = m]
V2SetInterruptMode(c, m) == [c EXCEPT !.interrupt_mode = m]
V2MaskInterrupt(c) == [c EXCEPT !.interrupt_mask = TRUE]
V2UnmaskInterrupt(c) == [c EXCEPT !.interrupt_mask = FALSE]
V2ClearInterrupt(c) == [c EXCEPT !.clear_interrupt = TRUE]
V2HasInterrupt(c) == c.has_interrupt

\* What the hardware keeps of a word stored to gpio_config[n]: the interrupt
\* state bit is read-only and is reset by a 1 in the clear bit; the clear bit
\* itself reads back as 0.
V2Store(old, new) ==
    [new EXCEPT !.has_interrupt = IF new.clear_interrupt THEN FALSE ELSE old.has_interrupt,
                !.clear_interrupt = FALSE]

(* glb::v1::GpioConfig: one 32-bit word for two pads, pad N in the 16-bit    *)
(* half N & 1 of word N >> 1.  A word is the pair <<half 0, half 1>>.       *)
(* Fields of a half: bit 0 input enable, bit 1 schmitt, bits 2-3 drive,    *)
(* bit 4 pull up, bit 5 pull down, bits 8-11 function.                     *)
HalfMax == (2 ^ 16) - 1
V1Half(w, idx) == w[idx + 1]
V1WithHalf(w, idx, h) == [w EXCEPT ![idx + 1] = h]
V1FunctionCode(f) == CASE f = "Gpio" -> 11 [] f = "Uart" -> 7 [] OTHER -> 0
V1PullCode(p) == CASE p = "Up" -> 1 [] p = "Down" -> 2 [] OTHER -> 0
V1SetFunction(w, idx, f) == V1WithHalf(w, idx, SetField(V1Half(w, idx), 8, 4, V1FunctionCode(f)))
V1EnableInput(w, idx) == V1WithHalf(w, idx, SetField(V1Half(w, idx), 0, 1, 1))
V1DisableInput(w, idx) == V1WithHalf(w, idx, SetField(V1Half(w, idx), 0, 1, 0))
V1EnableSchmitt(w, idx) == V1WithHalf(w, idx, SetField(V1Half(w, idx), 1, 1, 1))
V1DisableSchmitt(w, idx) == V1WithHalf(w, idx, SetField(V1Half(w, idx), 1, 1, 0))
V1SetDrive(w, idx, d) == V1WithHalf(w, idx, SetField(V1Half(w, idx), 2, 2, d))
V1Drive(w, idx) == GetField(V1Half(w, idx), 2, 2)
V1SetPull(w, idx, p) == V1WithHalf(w, idx, SetField(V1Half(w, idx), 4, 2, V1PullCode(p)))
V1Function(w, idx) == GetField(V1Half(w, idx), 8, 4)
V1InputEnabled(w, idx) == GetField(V1Half(w, idx), 0, 1) = 1
V1Pull(w, idx) == GetField(V1Half(w, idx), 4, 2)

\* glb::v1::GpioInterruptMode: the interrupt modes of two pads in one word
V1InterruptMode(w, idx) == w[idx + 1]
V1SetInterruptMode(w, idx, m) == [w EXCEPT ![idx + 1] = m]

\* N >> 1 and N & 0x1
Shr1(n) == n \div 2
And1(n) == n % 2

(* ----------------------- pad type-state machine ------------------------ *)
Pulls == {"Floating", "PullUp", "PullDown"}
PullOf(m) == CASE m = "PullUp" -> "Up" [] m = "PullDown" -> "Down" [] OTHER -> "None"
\* arguments of set_drive and set_interrupt_mode that are explored
DriveArgs == {0, 3}
InterruptModeArgs == {"SyncFallingEdge", "SyncHighLevel"}
\* the indices I for which Spi<I>, Pwm<I> and I2c<I> implement Alternate
SpiIdx == {"0", "1"}
PwmIdx == {"0", "1"}
I2cIdx == {"0", "1", "2", "3"}

\* a live value Pad<A, N, M>: the pad N and the type state M
PadValue(n, kind, mode) == [pin |-> n, kind |-> kind, mode |-> mode]
Disabled(n) == PadValue(n, "Disabled", "")

\* Pad<A, N, Input<M>> and Pad<A, N, Output<M>>: the impl blocks of the
\* mode-specific operations take self in these type states only
IsInput(n) == \E v \in live : v.pin = n /\ v.kind = "Input"
\* mutant of IsOutput: the output operations are implemented for every type state
IsOutput_AnyRole(n) == \E v \in live : v.pin = n
IsOutput(n) == \E v \in live : v.pin = n /\ v.kind = "Output"

\* mutant of Move: the transition borrows self, the old value stays usable
Move_KeepsOld(v, kind, mode) == live \cup {PadValue(v.pin, kind, mode)}

\* fn into_x(self) -> Pad<A, N, X>: self is moved in, the new value is returned
Move(v, kind, mode) == (live \ {v}) \cup {PadValue(v.pin, kind, mode)}

\* one more pad operation or hardware event of the run
Tick == nops < MaxOps /\ nops' = nops + 1

\* the pad operation op was called on pad n and returned ret
Called(op, n, ret) == Tick /\ call' = [op |-> op, pin |-> n, ret |-> ret]

\* unsafe { self.base.gpio_config[i].write(config) }
WriteConfig(i, config) ==
    gpio_config' = [gpio_config EXCEPT ![i] =
        IF layout = "v1" THEN config ELSE V2Store(gpio_config[i], config)]

\* the configuration word of an output pad, computed from the word read
IntoOutputWord(l, word, idx, m) ==
    IF l = "v1"
    THEN V1SetPull(V1DisableInput(V1SetFunction(word, idx, "Gpio"), idx), idx, PullOf(m))
    ELSE V2SetPull(V2EnableOutput(V2DisableInput(V2SetMode(
             V2SetFunction(word, "Gpio"), "SetClear"))), PullOf(m))

\* the configuration word of an input pad, computed from the word read
IntoInputWord(l, word, idx, m) ==
    IF l = "v1"
    THEN V1SetPull(V1EnableInput(V1SetFunction(word, idx, "Gpio"), idx), idx, PullOf(m))
    ELSE V2SetPull(V2DisableOutput(V2EnableInput(V2SetMode(
             V2SetFunction(word, "Gpio"), "SetClear"))), PullOf(m))

\* the index of the configuration word of pad n: N >> 1 or N
ConfigIndex(n) == IF layout = "v1" THEN Shr1(n) ELSE n

IntoOutput(n, m, op) ==
    \E v \in live :
        /\ v.pin = n
        /\ WriteConfig(ConfigIndex(n),
                       IntoOutputWord(layout, gpio_config[ConfigIndex(n)], And1(n), m))
        /\ gpio_output_enable' =
               IF layout = "v1" THEN BitSet(gpio_output_enable, n) ELSE gpio_output_enable
        /\ live' = Move(v, "Output", m)
        /\ Called(op, n, "unit")
        /\ UNCHANGED <<uart, layout, gpio_output_value, gpio_input_value, gpio_interrupt_state,
                       gpio_interrupt_mask, gpio_interrupt_mode, bridge>>

IntoInput(n, m, op) ==
    \E v \in live :
        /\ v.pin = n
        /\ WriteConfig(ConfigIndex(n),
                       IntoInputWord(layout, gpio_config[ConfigIndex(n)], And1(n), m))
        /\ gpio_output_enable' =
               IF layout = "v1" THEN BitClr(gpio_output_enable, n) ELSE gpio_output_enable
        /\ live' = Move(v, "Input", m)
        /\ Called(op, n, "unit")
        /\ UNCHANGED <<uart, layout, gpio_output_value, gpio_input_value, gpio_interrupt_state,
                       gpio_interrupt_mask, gpio_interrupt_mode, bridge>>

into_pull_up_output(n) == IntoOutput(n, "PullUp", "into_pull_up_output")
into_pull_down_output(n) == IntoOutput(n, "PullDown", "into_pull_down_output")
into_floating_output(n) == IntoOutput(n, "Floating", "into_floating_output")
into_pull_up_input(n) == IntoInput(n, "PullUp", "into_pull_up_input")
into_pull_down_input(n) == IntoInput(n, "PullDown", "into_pull_down_input")
into_floating_input(n) == IntoInput(n, "Floating", "into_floating_input")

\* the alternate-function transitions of Pad (glb-v2 only): one store of a
\* word built from RESET_VALUE
IntoAlternate(n, config, kind, mode, op) ==
    \E v \in live :
        /\ layout = "v2"
        /\ v.pin = n
        /\ WriteConfig(n, config)
        /\ live' = Move(v, kind, mode)
        /\ Called(op, n, "unit")
        /\ UNCHANGED <<uart, layout, gpio_output_enable, gpio_output_value, gpio_input_value,
                       gpio_interrupt_state, gpio_interrupt_mask, gpio_interrupt_mode, bridge>>

UART_GPIO_CONFIG ==
    V2SetFunction(V2SetPull(V2SetDrive(V2EnableSchmitt(V2EnableOutput(
        V2EnableInput(V2ResetValue))), 0), "Up"), "Uart")

into_spi(n, i) ==
    IntoAlternate(n,
        V2SetFunction(V2SetDrive(V2SetPull(V2EnableSchmitt(V2DisableOutput(
            V2EnableInput(V2ResetValue))), "Up"), 0), "Spi" \o i),
        "Spi", i, "into_spi")

into_uart(n) == IntoAlternate(n, UART_GPIO_CONFIG, "Uart", "", "into_uart")

into_mm_uart(n) ==
    IntoAlternate(n, V2SetFunction(UART_GPIO_CONFIG, "MmUart"), "MmUart", "", "into_mm_uart")

IntoPwmConfig(i, p) ==
    V2SetFunction(V2SetPull(V2SetDrive(V2EnableSchmitt(V2EnableOutput(
        V2DisableInput(V2ResetValue))), 0), p), "Pwm" \o i)

into_pull_up_pwm(n, i) == IntoAlternate(n, IntoPwmConfig(i, "Up"), "Pwm", i, "into_pull_up_pwm")
into_pull_down_pwm(n, i) == IntoAlternate(n, IntoPwmConfig(i, "Down"), "Pwm", i, "into_pull_down_pwm")
into_floating_pwm(n, i) == IntoAlternate(n, IntoPwmConfig(i, "None"), "Pwm", i, "into_floating_pwm")

into_i2c(n, i) ==
    IntoAlternate(n,
        V2SetFunction(V2SetPull(V2SetDrive(V2EnableSchmitt(V2EnableOutput(
            V2EnableInput(V2ResetValue))), 0), "Up"), "I2c" \o i),
        "I2c", i, "into_i2c")

\* Padv1::into_uart (glb-v1): the word is read from gpio_config[N >> 1] and
\* stored to gpio_config[N]
padv1_into_uart(n) ==
    \E v \in live :
        /\ layout = "v1"
        /\ v.pin = n
        /\ WriteConfig(n, V1SetPull(V1EnableInput(V1SetFunction(gpio_config[Shr1(n)],
                                        And1(n), "Uart"), And1(n)), And1(n), "None"))
        /\ live' = Move(v, "Uart", "")
        /\ Called("into_uart", n, "unit")
        /\ UNCHANGED <<uart, layout, gpio_output_enable, gpio_output_value, gpio_input_value,
                       gpio_interrupt_state, gpio_interrupt_mask, gpio_interrupt_mode, bridge>>

(* ---------------------- mode-specific operations ----------------------- *)
\* Pad<A, N, Input<M>>::has_interrupt, on given register contents
HasInterruptIn(config, state, n) ==
    IF layout = "v1" THEN BitTest(state, n)
    ELSE V2HasInterrupt(config[n])

HasInterrupt(n) == HasInterruptIn(gpio_config, gpio_interrupt_state, n)

\* Pad<A, N, Input<M>>::interrupt_mode
InterruptMode(n) ==
    IF layout = "v1" THEN V1InterruptMode(gpio_interrupt_mode[Shr1(n)], And1(n))
    ELSE gpio_config[n].interrupt_mode

\* the word set_interrupt_mode stores, computed from the word it read
SetInterruptModeConfig(n, word, val) ==
    IF layout = "v1" THEN V1SetInterruptMode(word, And1(n), val)
    ELSE V2SetInterruptMode(word, val)

\* the store of set_interrupt_mode
WriteInterruptMode(n, config) ==
    IF layout = "v1"
    THEN /\ gpio_interrupt_mode' = [gpio_interrupt_mode EXCEPT ![Shr1(n)] = config]
         /\ UNCHANGED gpio_config
    ELSE /\ WriteConfig(n, config)
         /\ UNCHANGED gpio_interrupt_mode

\* the word set_interrupt_mode reads
ReadInterruptMode(n) ==
    IF layout = "v1" THEN gpio_interrupt_mode[Shr1(n)] ELSE gpio_config[n]

enable_schmitt(n) ==
    /\ IsInput(n)
    /\ IF layout = "v1"
       THEN WriteConfig(Shr1(n), V1EnableSchmitt(gpio_config[Shr1(n)], And1(n)))
       ELSE WriteConfig(n, V2EnableSchmitt(gpio_config[n]))
    /\ Called("enable_schmitt", n, "unit")
    /\ UNCHANGED <<uart, layout, live, gpio_output_enable, gpio_output_value, gpio_input_value,
                   gpio_interrupt_state, gpio_interrupt_mask, gpio_interrupt_mode, bridge>>

disable_schmitt(n) ==
    /\ IsInput(n)
    /\ IF layout = "v1"
       THEN WriteConfig(Shr1(n), V1DisableSchmitt(gpio_config[Shr1(n)], And1(n)))
       ELSE WriteConfig(n, V2DisableSchmitt(gpio_config[n]))
    /\ Called("disable_schmitt", n, "unit")
    /\ UNCHANGED <<uart, layout, live, gpio_output_enable, gpio_output_value, gpio_input_value,
                   gpio_interrupt_state, gpio_interrupt_mask, gpio_interrupt_mode, bridge>>

\* glb-v1: gpio_interrupt_clear.write(1 << N), which resets bit N of the state
clear_interrupt(n) ==
    /\ IsInput(n)
    /\ IF layout = "v1"
       THEN /\ gpio_interrupt_state' = BitClr(gpio_interrupt_state, n)
            /\ UNCHANGED gpio_config
       ELSE /\ WriteConfig(n, V2ClearInterrupt(gpio_config[n]))
            /\ UNCHANGED gpio_interrupt_state
    /\ Called("clear_interrupt", n, "unit")
    /\ UNCHANGED <<uart, layout, live, gpio_output_enable, gpio_output_value, gpio_input_value,
                   gpio_interrupt_mask, gpio_interrupt_mode, bridge>>

has_interrupt(n) ==
    /\ IsInput(n)
    /\ Called("has_interrupt", n, HasInterrupt(n))
    /\ UNCHANGED <<uart, layout, live, regs, bridge>>

mask_interrupt(n) ==
    /\ IsInput(n)
    /\ IF layout = "v1"
       THEN /\ gpio_interrupt_mask' = BitSet(gpio_interrupt_mask, n)
            /\ UNCHANGED gpio_config
       ELSE /\ WriteConfig(n, V2MaskInterrupt(gpio_config[n]))
            /\ UNCHANGED gpio_interrupt_mask
    /\ Called("mask_interrupt", n, "unit")
    /\ UNCHANGED <<uart, layout, live, gpio_output_enable, gpio_output_value, gpio_input_value,
                   gpio_interrupt_state, gpio_interrupt_mode, bridge>>

unmask_interrupt(n) ==
    /\ IsInput(n)
    /\ IF layout = "v1"
       THEN /\ gpio_interrupt_mask' = BitClr(gpio_interrupt_mask, n)
            /\ UNCHANGED gpio_config
       ELSE /\ WriteConfig(n, V2UnmaskInterrupt(gpio_config[n]))
            /\ UNCHANGED gpio_interrupt_mask
    /\ Called("unmask_interrupt", n, "unit")
    /\ UNCHANGED <<uart, layout, live, gpio_output_enable, gpio_output_value, gpio_input_value,
                   gpio_interrupt_state, gpio_interrupt_mode, bridge>>

interrupt_mode(n) ==
    /\ IsInput(n)
    /\ Called("interrupt_mode", n, InterruptMode(n))
    /\ UNCHANGED <<uart, layout, live, regs, bridge>>

set_interrupt_mode(n, val) ==
    /\ IsInput(n)
    /\ WriteInterruptMode(n, SetInterruptModeConfig(n, ReadInterruptMode(n), val))
    /\ Called("set_interrupt_mode", n, "unit")
    /\ UNCHANGED <<uart, layout, live, gpio_output_enable, gpio_output_value, gpio_input_value,
                   gpio_interrupt_state, gpio_interrupt_mask, bridge>>

drive(n) ==
    /\ IsOutput(n)
    /\ Called("drive", n, IF layout = "v1" THEN V1Drive(gpio_config[Shr1(n)], And1(n))
                          ELSE gpio_config[n].drive)
    /\ UNCHANGED <<uart, layout, live, regs, bridge>>

set_drive(n, val) ==
    /\ IsOutput(n)
    /\ IF layout = "v1"
       THEN WriteConfig(Shr1(n), V1SetDrive(gpio_config[Shr1(n)], And1(n), val))
       ELSE WriteConfig(n, V2SetDrive(gpio_config[n], val))
    /\ Called("set_drive", n, "unit")
    /\ UNCHANGED <<uart, layout, live, gpio_output_enable, gpio_output_value, gpio_input_value,
                   gpio_interrupt_state, gpio_interrupt_mask, gpio_interrupt_mode, bridge>>

\* InputPin: glb-v1 reads gpio_input_value, glb-v2 reads gpio_input[N >> 5]
is_high(n) ==
    /\ IsInput(n)
    /\ Called("is_high", n, BitTest(gpio_input_value, n))
    /\ UNCHANGED <<uart, layout, live, regs, bridge>>

is_low(n) ==
    /\ IsInput(n)
    /\ Called("is_low", n, ~BitTest(gpio_input_value, n))
    /\ UNCHANGED <<uart, layout, live, regs, bridge>>

\* the output levels after the level of pad n is written: glb-v1 stores
\* val & !(1 << N) or val | (1 << N) to gpio_output_value, glb-v2 stores
\* 1 << (N & 0x1F) to gpio_clear[N >> 5] or gpio_set[N >> 5]
OutputLevel_WholeWord(v, n, high) == IF high THEN 2 ^ n ELSE 0
OutputLevel(v, n, high) == IF high THEN BitSet(v, n) ELSE BitClr(v, n)

set_low(n) ==
    /\ IsOutput(n)
    /\ gpio_output_value' = OutputLevel(gpio_output_value, n, FALSE)
    /\ Called("set_low", n, "Ok")
    /\ UNCHANGED <<uart, layout, live, gpio_config, gpio_output_enable, gpio_input_value,
                   gpio_interrupt_state, gpio_interrupt_mask, gpio_interrupt_mode, bridge>>

set_high(n) ==
    /\ IsOutput(n)
    /\ gpio_output_value' = OutputLevel(gpio_output_value, n, TRUE)
    /\ Called("set_high", n, "Ok")
    /\ UNCHANGED <<uart, layout, live, gpio_config, gpio_output_enable, gpio_input_value,
                   gpio_interrupt_state, gpio_interrupt_mask, gpio_interrupt_mode, bridge>>

(* ------------------------------ hardware ------------------------------- *)
\* the interrupt condition of pad n is met: the interrupt state bit is set
HwInterrupt(n) ==
    /\ ~HasInterrupt(n)
    /\ IF layout = "v1"
       THEN /\ gpio_interrupt_state' = BitSet(gpio_interrupt_state, n)
            /\ UNCHANGED gpio_config
       ELSE /\ gpio_config' = [gpio_config EXCEPT ![n].has_interrupt = TRUE]
            /\ UNCHANGED gpio_interrupt_state

\* the level of the line of pad n changes
HwLevel(n) ==
    gpio_input_value' = IF BitTest(gpio_input_value, n) THEN BitClr(gpio_input_value, n)
                        ELSE BitSet(gpio_input_value, n)

(* ---------------------------- initial state ---------------------------- *)
\* values of a glb-v1 configuration word at start-up that are explored
V1InitWords == {<<0, 0>>, <<HalfMax, HalfMax>>}
\* glb-v1 has a configuration word at every index a pad operation touches
ConfigIdx(l, np) == 0 .. (np - 1)
AllBits(np) == (2 ^ np) - 1

\* the registers after reset, for np pads
InitRegs(np) ==
    /\ gpio_config \in
         IF layout = "v1" THEN {[i \in ConfigIdx(layout, np) |-> w] : w \in V1InitWords}
         ELSE {[n \in 0 .. (np - 1) |-> V2ResetValue]}
    /\ gpio_output_enable = 0
    /\ gpio_output_value \in {0, AllBits(np)}
    /\ gpio_input_value = 0
    /\ gpio_interrupt_state = 0
    /\ gpio_interrupt_mask = IF layout = "v1" THEN AllBits(np) ELSE 0
    /\ gpio_interrupt_mode =
         IF layout = "v1"
         THEN [i \in ConfigIdx(layout, np) |-> <<"SyncFallingEdge", "SyncFallingEdge">>]
         ELSE <<>>

\* no UART pads have been composed
NoSerial == [pc |-> "none"]

NoWaker == {}
IsrIdle == [pc |-> "idle", pad_id |-> 0, glb |-> 0, waker |-> NoWaker, has_interrupt |-> FALSE]
FutIdle == [pc |-> "idle", task |-> 0, config |-> <<>>, poll |-> "none"]
\* what is remembered of the current (or the last) run of on_interrupt:
\*   quiet: it has returned and nothing has happened since
\*   b2b: it was entered right after the run before it returned, and no
\*        hardware event has happened since that return
\*   prev_woke: the run before it invoked a wake
\*   entry_glb: the reference it loaded
\*   entry_has: the pads whose interrupt state bit was set when it was entered
\*   entry_slot: what every slot held when it was entered
\*   log: the wakes and the interrupt clears it has done, in order
\*   superseded: per slot, the wakers that a later registration has replaced
\*               since the slot was last taken
HistNone ==
    [quiet |-> FALSE, b2b |-> FALSE, prev_woke |-> FALSE, entry_glb |-> 0,
     entry_has |-> {}, entry_slot |-> <<>>, log |-> <<>>,
     superseded |-> [k \in PadIds |-> {}]]

\* GpioState::new()
GpioStateNew ==
    /\ ref_to_glb = 0
    /\ pads = [k \in PadIds |-> NoWaker]
    /\ isr = IsrIdle
    /\ fut = [k \in PadIds |-> FutIdle]
    /\ notified = [t \in Tasks |-> FALSE]
    /\ hist = HistNone

\* Pads: every pad starts as Pad<A, N, Disabled>
InitPins ==
    /\ layout \in Layouts
    /\ live = {Disabled(n) : n \in Pins}
    /\ call = [op |-> "none", pin |-> 0, ret |-> "unit"]
    /\ nops = 0
    /\ InitRegs(NumPins)
    /\ GpioStateNew
    /\ uart = NoSerial

HwPins ==
    \E n \in Pins :
        \/ /\ HwInterrupt(n)
           /\ Tick
           /\ UNCHANGED <<uart, layout, live, call, gpio_output_enable, gpio_output_value,
                          gpio_input_value, gpio_interrupt_mask, gpio_interrupt_mode, bridge>>
        \/ /\ HwLevel(n)
           /\ Tick
           /\ UNCHANGED <<uart, layout, live, call, gpio_config, gpio_output_enable,
                          gpio_output_value, gpio_interrupt_state, gpio_interrupt_mask,
                          gpio_interrupt_mode, bridge>>

NextPins ==
    \/ \E n \in Pins :
        \/ into_pull_up_output(n)
        \/ into_pull_down_output(n)
        \/ into_floating_output(n)
        \/ into_pull_up_input(n)
        \/ into_pull_down_input(n)
        \/ into_floating_input(n)
        \/ into_uart(n)
        \/ into_mm_uart(n)
        \/ padv1_into_uart(n)
        \/ \E i \in SpiIdx : into_spi(n, i)
        \/ \E i \in PwmIdx : into_pull_up_pwm(n, i)
        \/ \E i \in PwmIdx : into_pull_down_pwm(n, i)
        \/ \E i \in PwmIdx : into_floating_pwm(n, i)
        \/ \E i \in I2cIdx : into_i2c(n, i)
        \/ enable_schmitt(n)
        \/ disable_schmitt(n)
        \/ clear_interrupt(n)
        \/ has_interrupt(n)
        \/ mask_interrupt(n)
        \/ unmask_interrupt(n)
        \/ interrupt_mode(n)
        \/ \E val \in InterruptModeArgs : set_interrupt_mode(n, val)
        \/ drive(n)
        \/ \E val \in DriveArgs : set_drive(n, val)
        \/ is_high(n)
        \/ is_low(n)
        \/ set_low(n)
        \/ set_high(n)
    \/ HwPins

SpecPins == InitPins /\ [][NextPins]_vars

(* ------------------------- claims on the pads -------------------------- *)
TransitionTarget ==
    [into_pull_up_output |-> "Output", into_pull_down_output |-> "Output",
     into_floating_output |-> "Output", into_pull_up_input |-> "Input",
     into_pull_down_input |-> "Input", into_floating_input |-> "Input",
     into_uart |-> "Uart", into_mm_uart |-> "MmUart", into_spi |-> "Spi",
     into_pull_up_pwm |-> "Pwm", into_pull_down_pwm |-> "Pwm",
     into_floating_pwm |-> "Pwm", into_i2c |-> "I2c"]
ValuesOf(n) == {v \in live : v.pin = n}

\* C9: for every pad and every sequence of into_* transitions at most one
\* role-typed value of the pad is live: every pad starts as Disabled, and a
\* transition leaves exactly one value of the pad, the one in the new role.
C9_OneLiveValuePerPin ==
    /\ \A n \in Pins : Cardinality(ValuesOf(n)) <= 1
    /\ nops = 0 => live = {Disabled(n) : n \in Pins}
    /\ call.op \in DOMAIN TransitionTarget =>
           ValuesOf(call.pin) \in
               {{PadValue(call.pin, TransitionTarget[call.op], m)} : m \in Pulls \cup I2cIdx \cup {""}}

\* a pad that was moved twice, the second time into an output role, while
\* another pad is in another role
C9_Witness ==
    /\ nops = MaxOps
    /\ call.op = "into_floating_output"
    /\ PadValue(call.pin, "Output", "Floating") \in live
    /\ \E v \in live : v.pin # call.pin /\ v.kind \in {"Input", "Uart"}

InputOps == {"is_high", "is_low", "mask_interrupt", "unmask_interrupt", "clear_interrupt",
             "has_interrupt", "interrupt_mode", "set_interrupt_mode"}
OutputOps == {"set_high", "set_low", "drive", "set_drive"}

\* C10: level read and the interrupt controls are called only on a pad in an
\* Input role, level write and drive strength only on a pad in an Output
\* role; none of them on a Disabled or alternate-function pad.
C10_OpsOnlyInMatchingRole ==
    /\ call.op \in InputOps => \E v \in live : v.pin = call.pin /\ v.kind = "Input"
    /\ call.op \in OutputOps => \E v \in live : v.pin = call.pin /\ v.kind = "Output"

\* set_high was called on an output pad while the other pad is no output
C10_Witness ==
    /\ call.op = "set_high"
    /\ BitTest(gpio_output_value, call.pin)
    /\ \E v \in live : v.pin # call.pin /\ v.kind # "Output"

(* ------------------------ interrupt/async bridge ------------------------ *)
\* the address of the GLB register block
GlbBase == 536870912

\* AtomicWaker::take: what the slot holds afterwards
AtomicWakerTake_Peek(w) == w
AtomicWakerTake(w) == NoWaker

\* AtomicWaker::register(waker): what the slot holds afterwards
AtomicWakerRegister_Keep(w, t) == w \cup {t}
AtomicWakerRegister(w, t) == {t}

\* registry: &self.registry.pads[N]
Registry_Neighbour(n) == (n + 1) % NumPads
Registry(n) == n

\* the interrupt of pad n reaches the interrupt controller
Unmasked(n) ==
    IF layout = "v1" THEN ~BitTest(gpio_interrupt_mask, n)
    ELSE ~gpio_config[n].interrupt_mask

\* what slot n holds: nothing, the waker of the wait that is pending on the
\* pad, the waker of a wait that was abandoned, or another left-over waker
SlotKind(n) ==
    IF pads[n] = NoWaker THEN "empty"
    ELSE IF fut[n].pc = "pending" /\ pads[n] = {fut[n].task} THEN "live"
    ELSE IF fut[n].pc = "idle" /\ fut[n].poll = "Abandoned" THEN "stale"
    ELSE "other"

Woke(log, k) == {i \in DOMAIN log : log[i][1] = "wake" /\ log[i][2] = k}
Cleared(log, k) == {i \in DOMAIN log : log[i][1] = "clear" /\ log[i][2] = k}

\* a step of task context or of the environment ends what hist remembers
Forget(h) ==
    [HistNone EXCEPT !.superseded = h.superseded]

\* the loop of on_interrupt goes on to the next slot, or the call returns
IsrNext ==
    IF isr.pad_id + 1 < NumPads
    THEN [isr EXCEPT !.pc = "take", !.pad_id = isr.pad_id + 1,
                     !.waker = NoWaker, !.has_interrupt = FALSE]
    ELSE IsrIdle

IsrReturns == ~(isr.pad_id + 1 < NumPads)

\* let glb = unsafe { &*(self.ref_to_glb.load(Ordering::Acquire) as *const RegisterBlock) };
on_interrupt_enter ==
    /\ isr.pc = "idle"
    /\ isr' = [IsrIdle EXCEPT !.pc = "take", !.glb = ref_to_glb]
    /\ hist' = [hist EXCEPT !.quiet = FALSE, !.b2b = hist.quiet,
                            !.prev_woke = hist.quiet /\ \E i \in DOMAIN hist.log : hist.log[i][1] = "wake",
                            !.entry_glb = ref_to_glb,
                            !.entry_has = {n \in PadIds : HasInterrupt(n)},
                            !.entry_slot = [n \in PadIds |-> SlotKind(n)],
                            !.log = <<>>]
    /\ UNCHANGED <<uart, layout, live, call, nops, regs, ref_to_glb, pads, fut, notified>>

\* the wake of the waker w taken from slot k, if has_interrupt is b
IsrWake(k, w, b) ==
    /\ isr' = [isr EXCEPT !.pc = "clear", !.waker = w, !.has_interrupt = b]
    /\ notified' = [t \in Tasks |-> notified[t] \/ (b /\ t \in w)]
    /\ hist' = [hist EXCEPT
                  !.log = IF b THEN Append(hist.log, <<"wake", k, w \cap hist.superseded[k] # {}>>)
                          ELSE hist.log,
                  !.superseded[k] = {}]

\* if let Some(waker) = pad_waker.take() { let has_interrupt = ...;
\*     if has_interrupt { waker.wake(); }
\* glb-v1 reads gpio_interrupt_mask, glb-v2 reads gpio_config[pad_id]; through
\* a null reference the read gives any value or faults
on_interrupt_take ==
    /\ isr.pc = "take"
    /\ IF pads[isr.pad_id] = NoWaker
       THEN /\ isr' = IsrNext
            /\ hist' = [hist EXCEPT !.quiet = IsrReturns]
            /\ UNCHANGED <<pads, notified>>
       ELSE /\ pads' = [pads EXCEPT ![isr.pad_id] = AtomicWakerTake(pads[isr.pad_id])]
            /\ IF isr.glb # 0
               THEN IsrWake(isr.pad_id, pads[isr.pad_id],
                            IF layout = "v1" THEN BitTest(gpio_interrupt_mask, isr.pad_id)
                            ELSE V2HasInterrupt(gpio_config[isr.pad_id]))
               ELSE \/ \E b \in BOOLEAN : IsrWake(isr.pad_id, pads[isr.pad_id], b)
                    \/ /\ isr' = [isr EXCEPT !.pc = "fault"]
                       /\ UNCHANGED <<notified, hist>>
    /\ UNCHANGED <<uart, layout, live, call, nops, regs, ref_to_glb, fut>>

\* glb-v1: todo!();  glb-v2: glb.gpio_config[pad_id].modify(|v| v.clear_interrupt());
\* through a null reference the store does not reach the register, or faults
on_interrupt_clear ==
    /\ isr.pc = "clear"
    /\ IF layout = "v1"
       THEN /\ isr' = [isr EXCEPT !.pc = "panicked"]
            /\ UNCHANGED <<gpio_config, hist>>
       ELSE IF isr.glb # 0
            THEN /\ WriteConfig(isr.pad_id, V2ClearInterrupt(gpio_config[isr.pad_id]))
                 /\ isr' = IsrNext
                 /\ hist' = [hist EXCEPT !.log = Append(hist.log, <<"clear", isr.pad_id, FALSE>>),
                                         !.quiet = IsrReturns]
            ELSE \/ /\ isr' = IsrNext
                    /\ hist' = [hist EXCEPT !.quiet = IsrReturns]
                    /\ UNCHANGED gpio_config
                 \/ /\ isr' = [isr EXCEPT !.pc = "fault"]
                    /\ UNCHANGED <<gpio_config, hist>>
    /\ UNCHANGED <<uart, layout, live, call, nops, gpio_output_enable, gpio_output_value,
                   gpio_input_value, gpio_interrupt_state, gpio_interrupt_mask,
                   gpio_interrupt_mode, ref_to_glb, pads, fut, notified>>

\* task context runs only while the interrupt routine is not running
Preempted == isr.pc # "idle"

\* a task step starts only when no task is inside set_interrupt_mode: tasks
\* are scheduled cooperatively and set_interrupt_mode has no await point
TaskContext == ~Preempted /\ \A k \in PadIds : fut[k].pc # "set_interrupt_mode"

\* wait_for_high: set_interrupt_mode(SyncHighLevel) reads the register
\* (modify is a load, the closure, and a store)
wait_for_high(n) ==
    /\ TaskContext
    /\ fut[n].pc = "idle"
    /\ fut' = [fut EXCEPT ![n] = [FutIdle EXCEPT !.pc = "set_interrupt_mode",
                                                  !.config = ReadInterruptMode(n)]]
    /\ hist' = Forget(hist)
    /\ UNCHANGED <<uart, layout, live, call, nops, regs, ref_to_glb, pads, isr, notified>>

\* set_interrupt_mode stores the word computed from the word it read; then
\* the InputFuture is made
set_interrupt_mode_store(n) ==
    /\ ~Preempted
    /\ fut[n].pc = "set_interrupt_mode"
    /\ WriteInterruptMode(n, SetInterruptModeConfig(n, fut[n].config, "SyncHighLevel"))
    /\ fut' = [fut EXCEPT ![n] = [FutIdle EXCEPT !.pc = "future"]]
    /\ hist' = Forget(hist)
    /\ UNCHANGED <<uart, layout, live, call, nops, gpio_output_enable, gpio_output_value,
                   gpio_input_value, gpio_interrupt_state, gpio_interrupt_mask,
                   ref_to_glb, pads, isr, notified>>

\* InputFuture::poll by task t: if self.pad.has_interrupt() { Poll::Ready(()) }
poll_check(n, t) ==
    /\ TaskContext
    /\ fut[n].pc \in {"future", "pending"}
    /\ fut' = [fut EXCEPT ![n] =
                  IF HasInterrupt(n) THEN [FutIdle EXCEPT !.poll = "Ready"]
                  ELSE [FutIdle EXCEPT !.pc = "register", !.task = t]]
    /\ notified' = [notified EXCEPT ![t] = FALSE]
    /\ hist' = Forget(hist)
    /\ UNCHANGED <<uart, layout, live, call, nops, regs, ref_to_glb, pads, isr>>

\* InputFuture::poll: self.registry.register(cx.waker()); Poll::Pending
poll_register(n) ==
    /\ TaskContext
    /\ fut[n].pc = "register"
    /\ pads' = [pads EXCEPT ![Registry(n)] = AtomicWakerRegister(pads[Registry(n)], fut[n].task)]
    /\ fut' = [fut EXCEPT ![n].pc = "pending", ![n].poll = "Pending"]
    /\ hist' = [Forget(hist) EXCEPT !.superseded[Registry(n)] =
                   (hist.superseded[Registry(n)] \cup pads[Registry(n)]) \ {fut[n].task}]
    /\ UNCHANGED <<uart, layout, live, call, nops, regs, ref_to_glb, isr, notified>>

\* the consumer drops the future of wait_for_high before it has completed
abandon(n) ==
    /\ TaskContext
    /\ fut[n].pc \in {"future", "pending"}
    /\ fut' = [fut EXCEPT ![n] = [FutIdle EXCEPT !.poll = "Abandoned"]]
    /\ hist' = Forget(hist)
    /\ UNCHANGED <<uart, layout, live, call, nops, regs, ref_to_glb, pads, isr, notified>>

\* start-up code stores the address of the register block in ref_to_glb,
\* before any wait is made
InitGlb ==
    /\ TaskContext
    /\ ref_to_glb = 0
    /\ fut = [k \in PadIds |-> FutIdle]
    /\ ref_to_glb' = GlbBase
    /\ hist' = Forget(hist)
    /\ UNCHANGED <<uart, layout, live, call, nops, regs, pads, isr, fut, notified>>

\* the interrupt condition of pad n is met, in task or in interrupt context
hw_interrupt(n) ==
    /\ isr.pc \notin {"panicked", "fault"}
    /\ HwInterrupt(n)
    /\ hist' = IF isr.pc = "idle" THEN Forget(hist) ELSE [hist EXCEPT !.b2b = FALSE]
    /\ UNCHANGED <<uart, layout, live, call, nops, gpio_output_enable, gpio_output_value,
                   gpio_input_value, gpio_interrupt_mask, gpio_interrupt_mode,
                   ref_to_glb, pads, isr, fut, notified>>

\* every pad is an input that an AsyncInput wraps; the interrupts of the
\* pads are all masked or all unmasked
InitBridge ==
    /\ layout \in Layouts
    /\ live = {PadValue(n, "Input", "Floating") : n \in PadIds}
    /\ call = [op |-> "none", pin |-> 0, ret |-> "unit"]
    /\ nops = 0
    /\ gpio_config \in
         IF layout = "v1"
         THEN {[i \in ConfigIdx(layout, NumPads) |->
                   IntoInputWord("v1", IntoInputWord("v1", <<0, 0>>, 0, "Floating"), 1, "Floating")]}
         ELSE {[n \in PadIds |-> [IntoInputWord("v2", V2ResetValue, 0, "Floating")
                                     EXCEPT !.interrupt_mask = b]] : b \in BOOLEAN}
    /\ gpio_output_enable = 0
    /\ gpio_output_value = 0
    /\ gpio_input_value = 0
    /\ gpio_interrupt_state = 0
    /\ gpio_interrupt_mask \in IF layout = "v1" THEN {0, AllBits(NumPads)} ELSE {0}
    /\ gpio_interrupt_mode =
         IF layout = "v1"
         THEN [i \in ConfigIdx(layout, NumPads) |-> <<"SyncFallingEdge", "SyncFallingEdge">>]
         ELSE <<>>
    /\ GpioStateNew
    /\ uart = NoSerial

OnInterrupt ==
    \/ on_interrupt_take
    \/ on_interrupt_clear

NextBridge ==
    \/ on_interrupt_enter
    \/ on_interrupt_take
    \/ on_interrupt_clear
    \/ InitGlb
    \/ \E n \in PadIds :
        \/ wait_for_high(n)
        \/ set_interrupt_mode_store(n)
        \/ \E t \in Tasks : poll_check(n, t)
        \/ poll_register(n)
        \/ abandon(n)
        \/ hw_interrupt(n)

SpecBridge == InitBridge /\ [][NextBridge]_vars

\* an unmasked pending interrupt line makes the core enter the routine
InterruptLine == \E n \in PadIds : HasInterrupt(n) /\ Unmasked(n)

\* the routine, once entered, runs on; it is entered while an unmasked
\* interrupt is pending; a poll that has started goes on to register
FairBridge ==
    /\ SpecBridge
    /\ WF_vars(OnInterrupt)
    /\ WF_vars(InterruptLine /\ on_interrupt_enter)
    /\ \A n \in PadIds : WF_vars(poll_register(n))
    /\ \A n \in PadIds : WF_vars(set_interrupt_mode_store(n))

(* ------------------------ claims on the bridge ------------------------- *)
\* the run of on_interrupt that hist describes has finished with slot k:
\* it has gone past it, has returned, or has stopped
IsrDoneWith(k) ==
    \/ isr.pc = "idle" /\ hist.quiet
    \/ isr.pc \in {"panicked", "fault"}
    \/ isr.pc \in {"take", "clear"} /\ isr.pad_id > k

\* C1: when on_interrupt (with an initialised register block reference) runs
\* while the interrupt state bit of pin K is set and slot K holds a waker,
\* it removes the waker, invokes wake exactly once, clears the interrupt of
\* pin K after the wake, and returns with slot K empty.
C1_WakesThenClears ==
    \A k \in PadIds :
        (IsrDoneWith(k) /\ hist.entry_glb # 0 /\ k \in hist.entry_has
                        /\ hist.entry_slot[k] # "empty")
        => /\ Cardinality(Woke(hist.log, k)) = 1
           /\ \E i \in Woke(hist.log, k) : \E j \in Cleared(hist.log, k) : i < j
           /\ pads[k] = NoWaker
           /\ isr.pc \notin {"panicked", "fault"}

\* C2: when on_interrupt (with an initialised register block reference) runs
\* while the interrupt state bit of pin K is set and slot K is empty, it
\* clears the interrupt of pin K and invokes no wake for it.
C2_ClearsWithoutWaker ==
    \A k \in PadIds :
        (IsrDoneWith(k) /\ hist.entry_glb # 0 /\ k \in hist.entry_has
                        /\ hist.entry_slot[k] = "empty")
        => /\ Cleared(hist.log, k) # {}
           /\ Woke(hist.log, k) = {}
           /\ isr.pc \notin {"panicked", "fault"}

\* C3: once the unmasked interrupt condition of pin K holds while a wait is
\* pending on pin K, the waiting task is eventually woken (or the wait has
\* ended, or on_interrupt has panicked), in every interleaving of polls,
\* interrupts and runs of on_interrupt.
C3_PendingWaitIsWoken ==
    \A k \in PadIds :
        (ref_to_glb # 0 /\ fut[k].pc = "pending" /\ HasInterrupt(k) /\ Unmasked(k))
            ~> (fut[k].pc # "pending" \/ notified[fut[k].task] \/ isr.pc = "panicked")

\* C4: a run of on_interrupt that is entered right after another run has
\* returned, with no hardware event since, invokes no wake and changes no
\* register and no waker slot.
C4_SecondCallDoesNothing ==
    [][(hist'.b2b /\ isr' # isr)
          => /\ regs' = regs
             /\ pads' = pads
             /\ notified' = notified
             /\ hist'.log = <<>>]_vars

C4_Witness ==
    /\ isr.pc = "idle"
    /\ hist.quiet
    /\ hist.b2b
    /\ hist.prev_woke
    /\ hist.entry_glb # 0
    /\ \E k \in PadIds : HasInterrupt(k)

\* C5: a poll of the InputFuture of pin N returns Ready exactly if
\* has_interrupt is true, and then leaves the waker slots alone; otherwise
\* it stores the waker of the polling task in slot N and returns Pending.
C5_PollContract ==
    [][\A n \in PadIds :
        /\ (fut[n].pc \in {"future", "pending"} /\ fut'[n].poll = "Ready")
              => (HasInterrupt(n) /\ pads' = pads)
        /\ (fut[n].pc \in {"future", "pending"} /\ fut'[n].pc = "register")
              => (~HasInterrupt(n) /\ pads' = pads)
        /\ (fut[n].pc = "register" /\ fut'[n].pc = "pending")
              => /\ pads' = [pads EXCEPT ![n] = {fut[n].task}]
                 /\ fut'[n].poll = "Pending"
        /\ (fut[n].pc \in {"future", "pending"} /\ fut'[n] # fut[n] /\ HasInterrupt(n))
              => fut'[n].poll \in {"Ready", "Abandoned"}]_vars

C5_Witness ==
    \E n, m \in PadIds :
        /\ n # m
        /\ fut[n].poll = "Pending"
        /\ pads[n] = {fut[n].task}
        /\ pads[m] = NoWaker
        /\ fut[m].poll = "Ready"

\* C6: every slot holds at most one waker; after a registration into an
\* occupied slot the slot holds the last registered waker only, and a waker
\* that was superseded is not in the slot and is not woken by on_interrupt.
C6_SlotHoldsLastWaker ==
    \A k \in PadIds :
        /\ Cardinality(pads[k]) <= 1
        /\ (fut[k].pc = "pending" /\ pads[k] # NoWaker) => pads[k] = {fut[k].task}
        /\ pads[k] \cap hist.superseded[k] = {}
        /\ \A i \in Woke(hist.log, k) : ~hist.log[i][3]

C6_Witness ==
    \E k \in PadIds :
        /\ hist.superseded[k] # {}
        /\ fut[k].pc = "pending"
        /\ pads[k] = {fut[k].task}
        /\ isr.pc = "clear" /\ isr.pad_id # k /\ isr.has_interrupt

\* C7: the waker of an abandoned wait stays in the slot of the pin; the next
\* run of on_interrupt (with an initialised register block reference) while
\* the interrupt of that pin is set invokes wake on it, does not fail, and
\* leaves the slot empty.
C7_StaleWakerIsWoken ==
    /\ [][\A k \in PadIds :
            (fut[k].poll # "Abandoned" /\ fut'[k].poll = "Abandoned") => pads' = pads]_vars
    /\ [](\A k \in PadIds :
            (IsrDoneWith(k) /\ hist.entry_glb # 0 /\ k \in hist.entry_has
                            /\ hist.entry_slot[k] = "stale")
            => /\ Woke(hist.log, k) # {}
               /\ pads[k] = NoWaker
               /\ isr.pc \notin {"panicked", "fault"})

\* C8: a run of on_interrupt (with an initialised register block reference)
\* never aborts, whatever the slots hold and whatever the interrupt bits are,
\* on glb-v1 and on glb-v2.
C8_NeverAborts ==
    isr.glb # 0 => isr.pc \notin {"panicked", "fault"}

\* C16: on_interrupt (with an initialised register block reference, entered
\* because some unmasked interrupt is pending) removes the waker of slot K
\* only if the interrupt state bit of pin K is set: a step of the routine
\* taken while the bit of pin K is clear leaves slot K and the registers of
\* pin K as they are, and a waker that is removed is woken.
C16_TakesOnlyIfBitSet ==
    [][\A k \in PadIds :
         (isr.glb # 0 /\ isr' # isr /\ isr.pc \in {"take", "clear"} /\ isr.pad_id = k
             /\ InterruptLine /\ ~HasInterrupt(k))
         => /\ pads'[k] = pads[k]
            /\ gpio_config' = gpio_config
            /\ isr'.pc # "panicked"]_vars

\* C17: on_interrupt never stores to the configuration register of pin K
\* between the load and the store of a set_interrupt_mode of pin K in task
\* context.
C17_NoStoreInsideTaskModify ==
    [][\A k \in PadIds :
         fut[k].pc = "set_interrupt_mode"
         => Cleared(hist'.log, k) \subseteq Cleared(hist.log, k)]_vars

\* C18: on glb-v1 and on glb-v2 the has_interrupt that on_interrupt computes
\* for pin K is what Input::has_interrupt returns for pin K: the interrupt
\* state bit, not the interrupt mask.
C18_DecidesFromStateBit ==
    [][(isr.glb # 0 /\ isr.pc = "take" /\ isr'.pc = "clear")
          => isr'.has_interrupt = HasInterrupt(isr.pad_id)]_vars

\* C19: ref_to_glb holds the address of the register block before on_interrupt
\* is entered and does not change afterwards, so that on_interrupt never
\* accesses a register through the initial value 0.
C19_NeverDereferencesNull ==
    /\ [][ref_to_glb # 0 => ref_to_glb' = ref_to_glb]_vars
    /\ [](isr.pc \in {"clear", "fault"} => isr.glb # 0)

(* ----------------------- UART pad compositions ------------------------- *)
UartPads == 0 .. (NumUartPads - 1)
\* the UART peripherals, and the U of MuxTxd<U>, MuxRxd<U>, MuxRts<U>, MuxCts<U>
UartIdx == 0 .. (NumUarts - 1)

\* the tuples of (Pad<_, N, Uart>, UartMux<_, I, M>) that implement Pads<U>,
\* by the signal M of their multiplexers
UartShapes ==
    {<<"MuxTxd">>, <<"MuxTxd", "MuxRxd">>, <<"MuxTxd", "MuxCts">>,
     <<"MuxTxd", "MuxRxd", "MuxRts", "MuxCts">>}

\* the pads of a composition are distinct values
DistinctPads(len) ==
    {f \in [1 .. len -> UartPads] : \A i, j \in 1 .. len : i # j => f[i] # f[j]}

\* impl HasUartSignal<I> for Pad<GLB, N, Uart>: I is N modulo 12
HasUartSignal(n) == n % 12

\* a (Pad<_, N, Uart>, UartMux<_, I, M<U>>) pair; c = <<offset, U>> picks the
\* multiplexer that is tried with the pad: the one the pad is wired to
\* (offset 0) or its neighbour, for every U
UartItem(n, m, c) ==
    [pad |-> n, role |-> "Uart", mux |-> m, signal |-> (HasUartSignal(n) + c[1]) % 12, u |-> c[2]]

\* the tuples that a program may try to pass as PADS: (pad, multiplexer)
\* pairs in the shape sh, or len pads in the MmUart role
UartTuple(sh, f, c) == [i \in DOMAIN sh |-> UartItem(f[i], sh[i], c[i])]
\* 1 to 4 pads Pad<_, N, MmUart>
MmUartTuple(len, f) ==
    [i \in 1 .. len |-> [pad |-> f[i], role |-> "MmUart", mux |-> "", signal |-> 0, u |-> 0]]

Muxes(p) == [i \in DOMAIN p |-> p[i].mux]

\* PADS: Pads<I> holds for some I: an impl of Pads<U> exists for the tuple
\* (where Pad<A, N, Uart>: HasUartSignal<I>, and one U for all multiplexers)
PadsImplemented(p) ==
    \/ \A i \in DOMAIN p : p[i].role = "MmUart"
    \/ /\ Muxes(p) \in UartShapes
       /\ \A i \in DOMAIN p : p[i].role = "Uart" /\ p[i].signal = HasUartSignal(p[i].pad)
       /\ \A i, j \in DOMAIN p : p[i].u = p[j].u

PadsConsts_AllSignals(p) == [RTS |-> TRUE, CTS |-> TRUE, TXD |-> TRUE, RXD |-> TRUE]

\* the signal of a multi-media UART pad: N % 4 is 0 for TXD, 1 for RXD, 2 for
\* RTS and 3 for CTS
MmUartSignal_AsUart(n) == HasUartSignal(n)
MmUartSignal(n) == n % 4

\* const RTS, CTS, TXD, RXD of the Pads implementation of the composition p
PadsConsts(p) ==
    CASE Muxes(p) = <<"MuxTxd">> ->
            [RTS |-> FALSE, CTS |-> FALSE, TXD |-> TRUE, RXD |-> FALSE]
      [] Muxes(p) = <<"MuxTxd", "MuxRxd">> ->
            [RTS |-> FALSE, CTS |-> FALSE, TXD |-> TRUE, RXD |-> TRUE]
      [] Muxes(p) = <<"MuxTxd", "MuxCts">> ->
            [RTS |-> FALSE, CTS |-> TRUE, TXD |-> TRUE, RXD |-> FALSE]
      [] Muxes(p) = <<"MuxTxd", "MuxRxd", "MuxRts", "MuxCts">> ->
            [RTS |-> FALSE, CTS |-> TRUE, TXD |-> TRUE, RXD |-> FALSE]
      [] OTHER ->
            [RTS |-> \E i \in DOMAIN p : MmUartSignal(p[i].pad) = 2,
             CTS |-> \E i \in DOMAIN p : MmUartSignal(p[i].pad) = 3,
             TXD |-> \E i \in DOMAIN p : MmUartSignal(p[i].pad) = 0,
             RXD |-> \E i \in DOMAIN p : MmUartSignal(p[i].pad) = 1]

\* no TransmitHalf or ReceiveHalf holds the peripheral
NoUart == {}

\* from_pads(uart, tx, rx): the pads each half holds, and the peripheral each
\* half holds (the TransmitHalf a bitwise copy of the handle)
from_pads(u, tx, rx) == [tx |-> tx, rx |-> rx, tx_uart |-> {u}, rx_uart |-> {u}]

\* Pads::split of the composition p: the (pad, multiplexer) pairs that the
\* TransmitHalf and the ReceiveHalf hold; Split<T> of the TXD + CTS pair is a
\* TransmitHalf only, Split<T> of the MmUart tuples is ()
PadsSplit(p, u) ==
    CASE Muxes(p) = <<"MuxTxd">> -> from_pads(u, {p[1]}, {})
      [] Muxes(p) = <<"MuxTxd", "MuxRxd">> -> from_pads(u, {p[1]}, {p[2]})
      [] Muxes(p) = <<"MuxTxd", "MuxCts">> ->
            [tx |-> {p[1], p[2]}, rx |-> {}, tx_uart |-> {u}, rx_uart |-> NoUart]
      [] Muxes(p) = <<"MuxTxd", "MuxRxd", "MuxRts", "MuxCts">> ->
            from_pads(u, {p[1], p[4]}, {p[2], p[3]})
      [] OTHER -> [tx |-> {}, rx |-> {}, tx_uart |-> NoUart, rx_uart |-> NoUart]

\* Serial::freerun(uart, config, pads, clocks) where PADS: Pads<I>: the
\* transmit and receive features are enabled as PADS::TXD, PADS::CTS and
\* PADS::RXD say
freerun ==
    /\ uart.pc = "pads"
    /\ PadsImplemented(uart.pads)
    /\ uart' = [uart EXCEPT !.pc = "serial", !.consts = PadsConsts(uart.pads),
                            !.enabled = {c \in {"TXD", "CTS", "RXD"} : PadsConsts(uart.pads)[c]}]
    /\ UNCHANGED <<layout, live, call, nops, regs, bridge>>

\* Serial::free(self) -> (UART, PADS)
free ==
    /\ uart.pc = "serial"
    /\ uart' = [uart EXCEPT !.pc = "pads", !.enabled = {}]
    /\ UNCHANGED <<layout, live, call, nops, regs, bridge>>

\* Serial::split(self): self.pads.split(self.uart)
split ==
    /\ uart.pc = "serial"
    /\ uart' = [uart EXCEPT !.pc = "split", !.halves = PadsSplit(uart.pads, uart.uart)]
    /\ UNCHANGED <<layout, live, call, nops, regs, bridge>>

\* a tuple of pads in the Uart or MmUart role and a UART peripheral; no pad
\* operation and no interrupt is part of these runs
InitUart ==
    /\ layout = "v2"
    /\ live = {}
    /\ call = [op |-> "none", pin |-> 0, ret |-> "unit"]
    /\ nops = 0
    /\ InitRegs(NumPins)
    /\ gpio_output_value = 0
    /\ GpioStateNew
    /\ \E u \in UartIdx :
         \/ \E sh \in UartShapes :
              \E f \in DistinctPads(Len(sh)) :
                \E c \in [DOMAIN sh -> {0, 1} \X UartIdx] :
                  uart = [pc |-> "pads", uart |-> u, pads |-> UartTuple(sh, f, c),
                          consts |-> <<>>, enabled |-> {}, halves |-> <<>>]
         \/ \E len \in 1 .. 4 :
              \E f \in DistinctPads(len) :
                uart = [pc |-> "pads", uart |-> u, pads |-> MmUartTuple(len, f),
                        consts |-> <<>>, enabled |-> {}, halves |-> <<>>]

NextUart ==
    \/ freerun
    \/ free
    \/ split

SpecUart == InitUart /\ [][NextUart]_vars

(* --------------------- UART signal multiplexers ------------------------ *)
MuxIdx == 0 .. (NumMux - 1)

\* MuxRts<I>::signal(), MuxCts<I>::signal(), MuxTxd<I>::signal() and
\* MuxRxd<I>::signal(): the UartSignal of I = 0, 1, 2; unreachable!() otherwise
MuxSignal(m, i) ==
    CASE i = 0 -> [MuxRts |-> "Rts0", MuxCts |-> "Cts0", MuxTxd |-> "Txd0", MuxRxd |-> "Rxd0"][m]
      [] i = 1 -> [MuxRts |-> "Rts1", MuxCts |-> "Cts1", MuxTxd |-> "Txd1", MuxRxd |-> "Rxd1"][m]
      [] i = 2 -> [MuxRts |-> "Rts2", MuxCts |-> "Cts2", MuxTxd |-> "Txd2", MuxRxd |-> "Rxd2"][m]
      [] OTHER -> "unreachable"

\* UartMux<GLB, N, M>::into_x::<U>(self) -> UartMux<GLB, N, X<U>>: the signal
\* is computed, then stored in field N & 7 of uart_mux_group[N >> 3]
MuxInto(n, m, u) ==
    /\ uart.pc = "muxes"
    /\ uart' = IF MuxSignal(m, u) = "unreachable"
               THEN [uart EXCEPT !.pc = "panicked", !.mode[n] = [mux |-> m, u |-> u]]
               ELSE [uart EXCEPT !.mode[n] = [mux |-> m, u |-> u],
                                 !.uart_mux_group[n] = MuxSignal(m, u)]
    /\ UNCHANGED <<layout, live, call, nops, regs, bridge>>

into_request_to_send(n, u) == MuxInto(n, "MuxRts", u)
into_transmit(n, u) == MuxInto(n, "MuxTxd", u)
into_receive(n, u) == MuxInto(n, "MuxRxd", u)
into_clear_to_send(n, u) == MuxInto(n, "MuxCts", u)

\* UartMuxes: every multiplexer starts as UartMux<GLB, N, MuxRts<0>>
InitMux ==
    /\ layout = "v2"
    /\ live = {}
    /\ call = [op |-> "none", pin |-> 0, ret |-> "unit"]
    /\ nops = 0
    /\ InitRegs(NumPins)
    /\ gpio_output_value = 0
    /\ GpioStateNew
    /\ uart = [pc |-> "muxes", mode |-> [n \in MuxIdx |-> [mux |-> "MuxRts", u |-> 0]],
               uart_mux_group |-> [n \in MuxIdx |-> "Rts0"]]

NextMux ==
    \E n \in MuxIdx : \E u \in 0 .. MaxMuxArg :
        \/ into_request_to_send(n, u)
        \/ into_transmit(n, u)
        \/ into_receive(n, u)
        \/ into_clear_to_send(n, u)

SpecMux == InitMux /\ [][NextMux]_vars

(* -------------------- claims on the compositions ----------------------- *)
Capability(rts, cts, txd, rxd) == [RTS |-> rts, CTS |-> cts, TXD |-> txd, RXD |-> rxd]

\* C12: the capability tuple (RTS, CTS, TXD, RXD) a Serial is made with is
\* (false, false, true, false) for a (pad, MuxTxd) pair, (false, false, true,
\* true) for (pad, MuxTxd) + (pad, MuxRxd) and (false, true, true, false) for
\* (pad, MuxTxd) + (pad, MuxCts).
C12_CapabilityTruthTable ==
    uart.pc \in {"serial", "split"} =>
        /\ Muxes(uart.pads) = <<"MuxTxd">>
              => uart.consts = Capability(FALSE, FALSE, TRUE, FALSE)
        /\ Muxes(uart.pads) = <<"MuxTxd", "MuxRxd">>
              => uart.consts = Capability(FALSE, FALSE, TRUE, TRUE)
        /\ Muxes(uart.pads) = <<"MuxTxd", "MuxCts">>
              => uart.consts = Capability(FALSE, TRUE, TRUE, FALSE)

C12_Witness ==
    /\ uart.pc = "serial"
    /\ Muxes(uart.pads) = <<"MuxTxd", "MuxRxd">>
    /\ uart.consts.RXD
    /\ uart.enabled = {"TXD", "RXD"}

\* C13: the capability tuple of the composition of four (pad, multiplexer)
\* pairs for TXD, RXD, RTS and CTS is (true, true, true, true).
C13_QuadHasEverySignal ==
    (uart.pc \in {"serial", "split"}
        /\ Muxes(uart.pads) = <<"MuxTxd", "MuxRxd", "MuxRts", "MuxCts">>)
    => uart.consts = Capability(TRUE, TRUE, TRUE, TRUE)

\* C14: the capability tuple of every composition, the tuples of 1 to 4
\* MmUart pads included, has TXD or RXD true.
C14_TxdOrRxd ==
    uart.pc \in {"serial", "split"} => (uart.consts.TXD \/ uart.consts.RXD)

\* the signal a (pad, multiplexer) pair or an MmUart pad carries
SignalOf(item) ==
    IF item.role = "Uart" THEN item.mux
    ELSE CASE item.pad % 4 = 0 -> "MuxTxd" [] item.pad % 4 = 1 -> "MuxRxd"
           [] item.pad % 4 = 2 -> "MuxRts" [] OTHER -> "MuxCts"

\* C15: after split every pad of the composition is held by exactly one of
\* the two halves, the TXD and CTS pads by the transmit half and the RXD and
\* RTS pads by the receive half: none is in both and none is lost.
C15_SplitPartitionsPads ==
    uart.pc = "split" =>
        /\ uart.halves.tx \cap uart.halves.rx = {}
        /\ uart.halves.tx \cup uart.halves.rx = {uart.pads[i] : i \in DOMAIN uart.pads}
        /\ \A item \in uart.halves.tx : SignalOf(item) \in {"MuxTxd", "MuxCts"}
        /\ \A item \in uart.halves.rx : SignalOf(item) \in {"MuxRxd", "MuxRts"}

\* C25: for a tuple of one to four MmUart pads TXD is true exactly if some
\* pad has N % 4 = 0, RXD exactly if some pad has N % 4 = 1, RTS exactly if
\* some pad has N % 4 = 2, and CTS exactly if some pad has N % 4 = 3.
C25_MmUartByIndexMod4 ==
    (uart.pc \in {"serial", "split"} /\ \A i \in DOMAIN uart.pads : uart.pads[i].role = "MmUart")
    => /\ Len(uart.pads) \in 1 .. 4
       /\ uart.consts.TXD <=> (\E i \in DOMAIN uart.pads : uart.pads[i].pad % 4 = 0)
       /\ uart.consts.RXD <=> (\E i \in DOMAIN uart.pads : uart.pads[i].pad % 4 = 1)
       /\ uart.consts.RTS <=> (\E i \in DOMAIN uart.pads : uart.pads[i].pad % 4 = 2)
       /\ uart.consts.CTS <=> (\E i \in DOMAIN uart.pads : uart.pads[i].pad % 4 = 3)

C25_Witness ==
    /\ uart.pc = "serial"
    /\ Len(uart.pads) = 2
    /\ uart.pads[1].role = "MmUart" /\ uart.pads[1].pad = 4
    /\ uart.pads[2].role = "MmUart" /\ uart.pads[2].pad = 1
    /\ uart.consts = Capability(FALSE, FALSE, TRUE, TRUE)
    /\ uart.enabled = {"TXD", "RXD"}

\* C26: for every composition, split yields a transmit half and a receive
\* half that both hold the peripheral that was passed in: the peripheral is
\* never dropped by split.
C26_HalvesShareThePeripheral ==
    uart.pc = "split"
    => /\ uart.halves.tx_uart = {uart.uart}
       /\ uart.halves.rx_uart = {uart.uart}

\* C27: a tuple is accepted as the pads of a Serial only if every pad in the
\* Uart role is wired to the signal of its multiplexer (N <= 45 and
\* I = N % 12) and every multiplexer is in a role of the UART index of the
\* peripheral that the Serial configures.
C27_AcceptsOnlyWiredPads ==
    uart.pc \in {"serial", "split"}
    => \A i \in DOMAIN uart.pads :
          uart.pads[i].role = "Uart"
          => /\ uart.pads[i].pad <= 45
             /\ uart.pads[i].signal = uart.pads[i].pad % 12
             /\ uart.pads[i].u = uart.uart

\* the codes of UartSignal
UartSignals ==
    {"Rts0", "Cts0", "Txd0", "Rxd0", "Rts1", "Cts1", "Txd1", "Rxd1",
     "Rts2", "Cts2", "Txd2", "Rxd2"}

\* C28: every transition of a multiplexer that the compiler accepts
\* (into_request_to_send, into_transmit, into_receive, into_clear_to_send,
\* for any U) completes and leaves a valid signal code in the multiplexer
\* register: none panics in the unreachable branch of signal().
C28_MuxNeverPanics ==
    uart.pc \in {"muxes", "panicked"}
    => /\ uart.pc # "panicked"
       /\ \A n \in MuxIdx : uart.uart_mux_group[n] \in UartSignals
       /\ \A n \in MuxIdx : uart.uart_mux_group[n] = MuxSignal(uart.mode[n].mux, uart.mode[n].u)

(* ------------------- claims on the register effects -------------------- *)
\* C11: on glb-v1 a transition of pin N changes only the half N & 1 of the
\* configuration register N >> 1: every other configuration register and
\* the half of the sibling pin are the same before and after.
C11_SiblingBitsKept ==
    [][(layout = "v1" /\ call'.op \in DOMAIN TransitionTarget /\ gpio_config' # gpio_config)
          => /\ \A i \in DOMAIN gpio_config :
                    i # Shr1(call'.pin) => gpio_config'[i] = gpio_config[i]
             /\ V1Half(gpio_config'[Shr1(call'.pin)], 1 - And1(call'.pin))
                    = V1Half(gpio_config[Shr1(call'.pin)], 1 - And1(call'.pin))]_vars

\* C20: on glb-v1 and on glb-v2 a role transition stores to one hardware
\* register only: the step of an into_* changes at most one register, and at
\* most one word of gpio_config.
C20_OneRegisterWrite ==
    [][(call'.op \in DOMAIN TransitionTarget /\ nops' # nops)
          => /\ Cardinality({r \in 1 .. Len(regs) : regs'[r] # regs[r]}) <= 1
             /\ Cardinality({w \in DOMAIN gpio_config : gpio_config'[w] # gpio_config[w]}) <= 1]_vars

(* -------------------- claims on the configuration ---------------------- *)
\* the fields of the hardware configuration of pad n, on both layouts
PinWord(n) == gpio_config[ConfigIndex(n)]
PinInputEnabled(n) ==
    IF layout = "v1" THEN V1InputEnabled(PinWord(n), And1(n)) ELSE PinWord(n).input_enable
PinOutputEnabled(n) ==
    IF layout = "v1" THEN BitTest(gpio_output_enable, n) ELSE PinWord(n).output_enable
PinPullIs(n, p) ==
    IF layout = "v1" THEN V1Pull(PinWord(n), And1(n)) = V1PullCode(p) ELSE PinWord(n).pull = p
PinFunctionIs(n, f) ==
    IF layout = "v1" THEN V1Function(PinWord(n), And1(n)) = V1FunctionCode(f)
    ELSE PinWord(n).function = f

\* Alternate::F of the role of the value v
FunctionOf(v) ==
    CASE v.kind \in {"Spi", "Pwm", "I2c"} -> v.kind \o v.mode
      [] v.kind \in {"Uart", "MmUart"} -> v.kind
      [] OTHER -> "Gpio"

\* C21: on glb-v2, after into_uart, into_spi or into_i2c the configuration of
\* the pad has input enabled, output enabled, the schmitt trigger enabled and
\* the function of the new role.
C21_AlternateEnablesBoth ==
    (layout = "v2" /\ call.op \in {"into_uart", "into_spi", "into_i2c"})
    => /\ PinInputEnabled(call.pin)
       /\ PinOutputEnabled(call.pin)
       /\ (IF layout = "v1"
           THEN GetField(V1Half(PinWord(call.pin), And1(call.pin)), 1, 1) = 1
           ELSE PinWord(call.pin).schmitt)
       /\ \A v \in ValuesOf(call.pin) : PinFunctionIs(call.pin, FunctionOf(v))


\* C22: after into_floating_output, into_pull_up_output or into_pull_down_output
\* the configuration of the pad has input disabled, output enabled, function
\* Gpio, the pull of the new role, and the default drive strength (Drive0),
\* whatever the drive strength was before the transition.
C22_OutputResetsDrive ==
    call.op \in {"into_pull_up_output", "into_pull_down_output", "into_floating_output"}
    => /\ ~PinInputEnabled(call.pin)
       /\ PinOutputEnabled(call.pin)
       /\ PinFunctionIs(call.pin, "Gpio")
       /\ \A v \in ValuesOf(call.pin) : PinPullIs(call.pin, PullOf(v.mode))
       /\ (IF layout = "v1" THEN V1Drive(PinWord(call.pin), And1(call.pin))
           ELSE PinWord(call.pin).drive) = 0

\* C23: a transition of pad N keeps the fields of the configuration of pad N
\* that no role governs: the interrupt mode and the interrupt mask of the pad
\* are the same after the transition as before, for the input and output
\* transitions and for the alternate-function transitions.
C23_KeepsInterruptSetup ==
    [][\A n \in Pins :
         (call'.op \in DOMAIN TransitionTarget /\ call'.pin = n /\ nops' # nops)
         => /\ InterruptMode(n)' = InterruptMode(n)
            /\ Unmasked(n)' = Unmasked(n)]_vars

\* C24: on glb-v1 Padv1::into_uart of pad N reads and stores the configuration
\* register N >> 1: every other configuration register is left as it is, and
\* the half N & 1 of register N >> 1 has function Uart, input enabled and no
\* pull afterwards.
C24_Padv1UartSameRegister ==
    [][\A n \in Pins :
         (layout = "v1" /\ call'.op = "into_uart" /\ call'.pin = n /\ nops' # nops
             /\ gpio_input_value' = gpio_input_value
             /\ gpio_interrupt_state' = gpio_interrupt_state)
         => /\ \A i \in DOMAIN gpio_config : i # Shr1(n) => gpio_config'[i] = gpio_config[i]
            /\ V1Function(gpio_config'[Shr1(n)], And1(n)) = V1FunctionCode("Uart")
            /\ V1InputEnabled(gpio_config'[Shr1(n)], And1(n))
            /\ V1Pull(gpio_config'[Shr1(n)], And1(n)) = V1PullCode("None")]_vars

\* C29: in every state the hardware configuration of every pad agrees with
\* the role of its live value: an Input<pull> pad has function Gpio, input
\* enabled, output disabled and that pull; an Output<pull> pad has function
\* Gpio, input disabled, output enabled and that pull; a pad in an
\* alternate-function role has the function code of the role.
C29_ConfigAgreesWithRole ==
    \A v \in live :
        /\ v.kind = "Input"
              => /\ PinFunctionIs(v.pin, "Gpio")
                 /\ PinInputEnabled(v.pin)
                 /\ ~PinOutputEnabled(v.pin)
                 /\ PinPullIs(v.pin, PullOf(v.mode))
        /\ v.kind = "Output"
              => /\ PinFunctionIs(v.pin, "Gpio")
                 /\ ~PinInputEnabled(v.pin)
                 /\ PinOutputEnabled(v.pin)
                 /\ PinPullIs(v.pin, PullOf(v.mode))
        /\ v.kind \in {"Uart", "MmUart", "Spi", "Pwm", "I2c"}
              => PinFunctionIs(v.pin, FunctionOf(v))

\* C30: set_high and set_low on the output pad N make the output level of
\* pad N 1 and 0; the output levels of the other pads and every other
\* register are left as they are, on glb-v1 and on glb-v2, and the result is
\* Ok.
C30_LevelWriteFrame ==
    [][\A n \in Pins :
         (call'.op \in {"set_high", "set_low"} /\ call'.pin = n /\ nops' # nops
             /\ gpio_input_value' = gpio_input_value
             /\ \A m \in Pins : HasInterrupt(m)' = HasInterrupt(m))
         => /\ BitTest(gpio_output_value', n) = (call'.op = "set_high")
            /\ \A m \in Pins \ {n} : BitTest(gpio_output_value', m) = BitTest(gpio_output_value, m)
            /\ gpio_output_value' < 2 ^ NumPins
            /\ gpio_config' = gpio_config
            /\ gpio_output_enable' = gpio_output_enable
            /\ gpio_interrupt_mask' = gpio_interrupt_mask
            /\ gpio_interrupt_mode' = gpio_interrupt_mode
            /\ live' = live
            /\ call'.ret = "Ok"]_vars

\* set_low was called on an output pad while the level of the other pad is 1
C30_Witness ==
    /\ call.op = "set_low"
    /\ call.ret = "Ok"
    /\ IsOutput(call.pin)
    /\ ~BitTest(gpio_output_value, call.pin)
    /\ \E m \in Pins : m # call.pin /\ BitTest(gpio_output_value, m)

====
